---- MODULE Spec2Model ----
(***************************************************************************)
(* A model of server.c, a single-threaded HTTP/1.1 static file server.     *)
(*                                                                         *)
(* A byte is a one-character string; C strings, buffers, file contents and *)
(* the bytes written to a connection are sequences of bytes.  The unit     *)
(* "NUL" stands for the zero byte.  A response header block is a sequence  *)
(* of header lines, one unit per line, so that a send() accepting only a   *)
(* part of the block leaves a proper prefix of these units on the wire.    *)
(*                                                                         *)
(* The file system and the peer are the environment: stat, open, read,     *)
(* recv and send return any result the call can return.  A file's content  *)
(* is fixed from the stat to the end of the transfer.                      *)
(***************************************************************************)
EXTENDS Integers, Sequences, FiniteSets, TLC

VARIABLES
    pc,          \* position of the single thread of control
    g_running,   \* the shutdown flag
    path_max,    \* PATH_MAX of the build
    buf,         \* handle_client: the bytes the initial recv stored
    r,           \* handle_client: what the initial recv returned
    req,         \* handle_client: struct request, as parse_request_line left it
    parsed,      \* handle_client: parse_request_line returned true
    is_get,      \* handle_client: is_get
    fs_path,     \* handle_client: fs_path
    st_size,     \* handle_client: st.st_size (-1 before a successful stat)
    file,        \* the content of the file at fs_path
    fd,          \* handle_client: the file handle: "none", "open", "closed"
    fpos,        \* the read offset of fd
    fbuf,        \* handle_client: the chunk read last
    p,           \* handle_client: bytes of fbuf sent so far (p - fbuf)
    remaining,   \* handle_client: remaining
    err,         \* the status send_error was called with (0: not called)
    wire,        \* the bytes the connection accepted, in order
    hdr_n,       \* how many units of the header block the connection accepted
    sock,        \* the connection handle: "none", "open", "closed"
    open_fds,    \* file handles of the process that are open
    n_recv,      \* calls of recv on this connection
    n_close,     \* calls of close_socket on this connection
    statuses,    \* the status of each header block send_fmt was called with
    n_errbody,   \* calls of send for an error body on this connection
    stat_paths,  \* the paths stat was called with on this connection
    open_paths,  \* the paths open was called with on this connection
    n_fclose,    \* calls of close(fd) on this connection
    n_read,      \* calls of read on this connection
    n_send,      \* calls of send in the copy loop on this connection
    aborted,     \* the copy loop ended by a read error or a failed send
    sent,        \* the request line the peer sent, as the initial recv stored it
    st_kind,     \* what the stat found: "none" before it
    joined       \* how safe_join ended: "none" before it, "ok", "failed"

vars == <<pc, g_running, path_max, buf, r, req, parsed, is_get, fs_path, st_size,
          file, fd, fpos, fbuf, p, remaining, err, wire, hdr_n, sock, open_fds,
          n_recv, n_close, statuses, n_errbody, stat_paths, open_paths,
          n_fclose, n_read, n_send, aborted, sent, st_kind, joined>>

conn_vars == <<buf, r, req, parsed, is_get, fs_path, st_size, file, fd, fpos, fbuf,
               p, remaining, err, wire, hdr_n, n_recv, n_close, statuses,
               n_errbody, stat_paths, open_paths, n_fclose, n_read, n_send,
               aborted, sent, st_kind, joined>>

(***************************************************************************)
(* Program constants.                                                      *)
(***************************************************************************)
RECV_LIMIT == 8192
METHOD_WIDTH == 7
TARGET_WIDTH == 2047
VERSION_WIDTH == 15
PATH_MAX_WIN32 == 260
PATH_MAX_POSIX == 4096
FBUF_SIZE == 16384

DOC_ROOT == <<"p", "u", "b", "l", "i", "c">>
SERVER_NAME == "c-http/0.3"

(***************************************************************************)
(* Bounds of the model.                                                    *)
(***************************************************************************)
MaxFileLen == 2

(***************************************************************************)
(* C strings.                                                              *)
(***************************************************************************)
NUL == "NUL"
CR == "\r"
LF == "\n"
CRLF == <<CR, LF>>
SP == <<" ">>
DOTDOT == <<".", ".">>
INDEX_HTML == <<"i", "n", "d", "e", "x", ".", "h", "t", "m", "l">>

Min(a, b) == IF a < b THEN a ELSE b

Take(s, n) == SubSeq(s, 1, Min(n, Len(s)))

\* The C string stored at the start of s: the bytes before the first zero byte.
CStr(s) ==
    IF \E i \in 1..Len(s) : s[i] = NUL
    THEN SubSeq(s, 1, (CHOOSE i \in 1..Len(s) :
                          s[i] = NUL /\ \A k \in 1..(i - 1) : s[k] # NUL) - 1)
    ELSE s

\* strstr(s, needle) for a needle of two bytes: the index of the first
\* occurrence in s, 0 when there is none.
IsAt(s, needle, i) == s[i] = needle[1] /\ s[i + 1] = needle[2]

strstr(s, needle) ==
    IF \E i \in 1..(Len(s) - 1) : IsAt(s, needle, i)
    THEN CHOOSE i \in 1..(Len(s) - 1) :
             IsAt(s, needle, i) /\ \A k \in 1..(i - 1) : ~IsAt(s, needle, k)
    ELSE 0

\* isspace in the C locale.
IsSpace(c) == c \in {" ", "\t", "\n", "\r", "\f"}

(***************************************************************************)
(* sscanf's %<w>s: skip white space, then store the bytes up to the next   *)
(* white space, the end of the input or w bytes, whichever comes first.    *)
(* The directive fails at the end of the input.                            *)
(***************************************************************************)
SkipStop(s, j) == j = Len(s) + 1 \/ ~IsSpace(s[j])

SkipSpace(s, i) ==
    CHOOSE j \in i..(Len(s) + 1) :
        SkipStop(s, j) /\ \A k \in i..(j - 1) : ~SkipStop(s, k)

TokenStop(s, i, w, j) == j = Len(s) + 1 \/ j = i + w \/ IsSpace(s[j])

TokenEnd(s, i, w) ==
    CHOOSE j \in i..(Len(s) + 1) :
        TokenStop(s, i, w, j) /\ \A k \in i..(j - 1) : ~TokenStop(s, i, w, k)

ScanString(s, i, w) ==
    LET a == SkipSpace(s, i)
        e == TokenEnd(s, a, w)
    IN  [ok |-> a <= Len(s), tok |-> SubSeq(s, a, e - 1), next |-> e]

\* sscanf(line, "%7s %2047s %15s", ...) == 3 and what it stored.  A field no
\* directive stored is shown empty; the code never reads it.
parse_request_line(line) ==
    LET m == ScanString(line, 1, METHOD_WIDTH)
        t == IF m.ok THEN ScanString(line, m.next, TARGET_WIDTH)
             ELSE [ok |-> FALSE, tok |-> <<>>, next |-> m.next]
        v == IF t.ok THEN ScanString(line, t.next, VERSION_WIDTH)
             ELSE [ok |-> FALSE, tok |-> <<>>, next |-> t.next]
    IN  [ok |-> m.ok /\ t.ok /\ v.ok,
         method |-> m.tok, target |-> t.tok, version |-> v.tok]

(***************************************************************************)
(* safe_join(out, n, root, rel): whether it succeeded, and out.            *)
(***************************************************************************)
\* A slip: if (*rel == '/') rel++, one slash only.
StripSlashes_Once(rel) ==
    IF rel # <<>> /\ rel[1] = "/" THEN Tail(rel) ELSE rel

\* while (*rel == '/') rel++
RECURSIVE StripSlashes(_)
StripSlashes(rel) ==
    IF rel # <<>> /\ rel[1] = "/" THEN StripSlashes(Tail(rel)) ELSE rel

\* snprintf(out, n, ...) of the text s: what it returns and what it stores.
snprintf(n, s) == [ret |-> Len(s), out |-> Take(s, n - 1)]

\* A slip: a rel that begins with '/' taken as the path, the root left out.
join_path_Absolute(n, root, rel) ==
    LET s == IF rel # <<>> /\ rel[1] = "/" THEN rel ELSE root \o <<"/">> \o rel
        f == snprintf(n, s)
    IN  [ok |-> f.ret < n, out |-> f.out]

\* The three snprintf calls: the path composed for rel, and whether it fits.
join_path(n, root, rel) ==
    LET rel1 == StripSlashes(rel)
        s == IF rel1 = <<>> THEN root \o <<"/">> \o INDEX_HTML
             ELSE IF rel1[Len(rel1)] = "/"
                  THEN root \o <<"/">> \o rel1 \o INDEX_HTML
                  ELSE root \o <<"/">> \o rel1
        f == snprintf(n, s)
    IN  [ok |-> f.ret < n, out |-> f.out]

\* A slip: only a target that begins with ".." is refused.
safe_join_LeadingDotDot(n, root, rel) ==
    IF Take(StripSlashes(rel), 2) = DOTDOT THEN [ok |-> FALSE, out |-> <<>>]
    ELSE join_path(n, root, rel)

safe_join(n, root, rel) ==
    IF strstr(rel, DOTDOT) # 0 THEN [ok |-> FALSE, out |-> <<>>]
    ELSE join_path(n, root, rel)

(***************************************************************************)
(* mime_from_path                                                          *)
(***************************************************************************)
\* A slip: strchr, the first '.' of the path.
strrchr_dot_First(path) ==
    IF \E i \in 1..Len(path) : path[i] = "."
    THEN SubSeq(path,
                CHOOSE i \in 1..Len(path) :
                    path[i] = "." /\ \A k \in 1..(i - 1) : path[k] # ".",
                Len(path))
    ELSE <<>>

\* strrchr(path, '.'): the text from the last '.', <<>> when there is none.
strrchr_dot(path) ==
    IF \E i \in 1..Len(path) : path[i] = "."
    THEN SubSeq(path,
                CHOOSE i \in 1..Len(path) :
                    path[i] = "." /\ \A k \in (i + 1)..Len(path) : path[k] # ".",
                Len(path))
    ELSE <<>>

mime_from_path(path) ==
    LET dot == strrchr_dot(path)
    IN  IF dot = <<>> THEN "application/octet-stream"
        ELSE IF dot = <<".", "h", "t", "m", "l">> \/ dot = <<".", "h", "t", "m">>
             THEN "text/html; charset=utf-8"
        ELSE IF dot = <<".", "c", "s", "s">> THEN "text/css; charset=utf-8"
        ELSE IF dot = <<".", "j", "s">> THEN "application/javascript; charset=utf-8"
        ELSE IF dot = <<".", "j", "s", "o", "n">> THEN "application/json; charset=utf-8"
        ELSE IF dot = <<".", "p", "n", "g">> THEN "image/png"
        ELSE IF dot = <<".", "j", "p", "g">> \/ dot = <<".", "j", "p", "e", "g">>
             THEN "image/jpeg"
        ELSE IF dot = <<".", "g", "i", "f">> THEN "image/gif"
        ELSE IF dot = <<".", "s", "v", "g">> THEN "image/svg+xml"
        ELSE IF dot = <<".", "t", "x", "t">> THEN "text/plain; charset=utf-8"
        ELSE "application/octet-stream"

(***************************************************************************)
(* The response texts.                                                     *)
(***************************************************************************)
\* http_time_now: the clock is the environment's; every date reads the same.
http_time_now == "now"

\* The header block handle_client formats for a 200, one unit per line.
OkHeaders(ctype, size) ==
    << "HTTP/1.1 200 OK\r\n",
       "Date: " \o http_time_now \o "\r\n",
       "Server: " \o SERVER_NAME \o "\r\n",
       "Content-Type: " \o ctype \o "\r\n",
       "Content-Length: " \o ToString(size) \o "\r\n",
       "Connection: close\r\n",
       "\r\n" >>

\* The reason phrase handle_client passes with each status.
Reason(status) ==
    CASE status = 400 -> "Bad Request"
      [] status = 403 -> "Forbidden"
      [] status = 404 -> "Not Found"
      [] status = 405 -> "Method Not Allowed"

\* send_error's body: tmpl with status and reason filled in twice.
ErrorBody(status, reason) ==
    << "<!doctype html><html><head><meta charset=\"utf-8\"><title>",
       ToString(status) \o " " \o reason,
       "</title></head><body><h1>",
       ToString(status) \o " " \o reason,
       "</h1></body></html>" >>

\* The header block send_error formats.
ErrorHeaders(status, reason, blen) ==
    << "HTTP/1.1 " \o ToString(status) \o " " \o reason \o "\r\n",
       "Date: " \o http_time_now \o "\r\n",
       "Server: " \o SERVER_NAME \o "\r\n",
       "Content-Type: text/html; charset=utf-8\r\n",
       "Content-Length: " \o ToString(blen) \o "\r\n",
       "Connection: close\r\n",
       "\r\n" >>

\* What send(fd, data, n, flags) can return: an error, or a count up to n.
SendResults(n) == (-1)..n

\* The bytes a send that returned k put on the wire.
Accepted(data, k) == IF k > 0 THEN Take(data, k) ELSE <<>>

(***************************************************************************)
(* The environment: what a peer sends, and the files a stat can find.      *)
(***************************************************************************)
GET == <<"G", "E", "T">>
HEAD == <<"H", "E", "A", "D">>
POST == <<"P", "O", "S", "T">>
LOWER_GET == <<"g", "e", "t">>
OPTIONS == <<"O", "P", "T", "I", "O", "N", "S">>
PROPFIND == <<"P", "R", "O", "P", "F", "I", "N", "D">>
HTTP11 == <<"H", "T", "T", "P", "/", "1", ".", "1">>
HOST_HEADER == <<"H", "o", "s", "t", ":", " ", "x">> \o CRLF \o CRLF

Pad(n) == [i \in 1..n |-> "a"]

Spaces(n) == [i \in 1..n |-> " "]

ShortTargets ==
    { <<"/">>, <<"/", "a">>, <<"/", "/", "a">>, <<"a">>, <<"/", "a", "/">>,
      <<"/", "a", "/", "b", "/">>, <<"/", "a", ".", "t", "x", "t">>, <<"/", "/">>,
      <<"/", ".", ".">>, <<"/", ".", ".", "/", "a">>, <<"/", "a", ".", ".", "b">> }

\* Targets by extension: each one mime_from_path knows, and ones it does not
\* (upper case, a longer one, two dots, a dot in a directory's name, none
\* after the dot).
Name(ext) == <<"/", "a", ".">> \o ext

MimeTargets ==
    { Name(<<"h", "t", "m", "l">>), Name(<<"h", "t", "m">>),
      Name(<<"c", "s", "s">>), Name(<<"j", "s">>), Name(<<"j", "s", "o", "n">>),
      Name(<<"p", "n", "g">>), Name(<<"j", "p", "g">>),
      Name(<<"j", "p", "e", "g">>), Name(<<"g", "i", "f">>),
      Name(<<"s", "v", "g">>),
      Name(<<"H", "T", "M", "L">>), Name(<<"h", "t", "m", "l", "x">>),
      Name(<<"m", "i", "n", ".", "j", "s">>), Name(<<"j", "s", ".", "g", "z">>),
      Name(<<"j", "s", "/", "b">>), Name(<<"j", "s", "/">>), Name(<<>>) }

\* Targets at the limits: TARGET_WIDTH bytes and one more, with and without a
\* ".." at the cut, and paths composed to PATH_MAX_WIN32 - 1 bytes and one more.
LongTargets ==
    { <<"/">> \o Pad(TARGET_WIDTH - 1),
      <<"/">> \o Pad(TARGET_WIDTH),
      <<"/">> \o Pad(TARGET_WIDTH - 3) \o DOTDOT,
      <<"/">> \o Pad(TARGET_WIDTH - 2) \o DOTDOT,
      <<"/">> \o Pad(TARGET_WIDTH - 1) \o DOTDOT,
      <<"/">> \o Pad(PATH_MAX_WIN32 - Len(DOC_ROOT) - 2),
      <<"/">> \o Pad(PATH_MAX_WIN32 - Len(DOC_ROOT) - 1),
      <<"/">> \o Pad(PATH_MAX_WIN32 - Len(DOC_ROOT) - Len(INDEX_HTML) - 3) \o <<"/">>,
      <<"/">> \o Pad(PATH_MAX_WIN32 - Len(DOC_ROOT) - Len(INDEX_HTML) - 2) \o <<"/">> }

RequestLine(m, t, v) == m \o SP \o t \o SP \o v

WellFormed ==
    { RequestLine(m, t, HTTP11) \o CRLF : m \in {GET, HEAD}, t \in ShortTargets }
    \cup { RequestLine(m, t, HTTP11) \o CRLF :
             m \in {POST, LOWER_GET, OPTIONS, PROPFIND},
             t \in {<<"/">>, <<"/", "a">>, <<"/", ".", ".">>} }
    \cup { RequestLine(GET, t, HTTP11) \o CRLF : t \in LongTargets }
    \cup { RequestLine(HEAD, t, HTTP11) \o CRLF : t \in MimeTargets }
    \cup { RequestLine(HEAD, <<"/", "a">>, HTTP11) \o CRLF \o HOST_HEADER }

Malformed ==
    { CRLF,
      SP \o CRLF,
      GET \o CRLF,
      GET \o SP \o <<"/">> \o CRLF,
      RequestLine(GET, <<"/">>, HTTP11) \o SP \o <<"x">> \o CRLF,
      RequestLine(GET, <<"/">>, HTTP11),
      RequestLine(GET, <<"/">>, HTTP11) \o <<LF>>,
      SP \o GET \o <<"\t">> \o <<"/">> \o SP \o SP \o HTTP11 \o CRLF,
      GET \o SP \o <<"/", LF>> \o HTTP11 \o CRLF,
      RequestLine(GET, <<"/">>, HTTP11) \o <<NUL>> \o CRLF,
      RequestLine(GET, <<"/">>, HTTP11 \o HTTP11) \o CRLF,
      RequestLine(GET, <<"/">>, HTTP11) \o Spaces(RECV_LIMIT) \o CRLF }

\* What a peer can have sent when the initial recv returns.
ClientData == WellFormed \cup Malformed

\* The byte at offset i of a file.
FileByte(i) == ToString(i)

\* The regular files a stat can find: of every length up to MaxFileLen, with
\* bytes that differ from each other.
Files == { [i \in 1..n |-> FileByte(i)] : n \in 0..MaxFileLen }

(***************************************************************************)
(* The state after construction.                                           *)
(***************************************************************************)
\* The request line as the peer sent it: whether the bytes received hold a
\* CRLF, and of the text before it the number of tokens (white-space separated,
\* of any length; 4 stands for four or more), the first token, and of the second
\* and third their lengths and whether the second holds "..".
NothingSent ==
    [crlf |-> FALSE, ntok |-> 0, method |-> <<>>, target_len |-> 0,
     dotdot |-> FALSE, version_len |-> 0]

RequestSent(b) ==
    LET e == strstr(b, CRLF)
        line == IF e # 0 THEN SubSeq(b, 1, e - 1) ELSE b
        w == Len(line) + 1
        t1 == ScanString(line, 1, w)
        t2 == ScanString(line, t1.next, w)
        t3 == ScanString(line, t2.next, w)
        t4 == ScanString(line, t3.next, w)
    IN  [crlf |-> e # 0,
         ntok |-> IF t4.ok THEN 4 ELSE IF t3.ok THEN 3 ELSE IF t2.ok THEN 2
                  ELSE IF t1.ok THEN 1 ELSE 0,
         method |-> t1.tok,
         target_len |-> Len(t2.tok),
         dotdot |-> strstr(t2.tok, DOTDOT) # 0,
         version_len |-> Len(t3.tok)]

NoRequest == [method |-> <<>>, target |-> <<>>, version |-> <<>>]

\* The locals and the records of one call of handle_client, before its first
\* statement.
ConnInit ==
    /\ buf = <<>>
    /\ r = 0
    /\ req = NoRequest
    /\ parsed = FALSE
    /\ is_get = FALSE
    /\ fs_path = <<>>
    /\ st_size = -1
    /\ file = <<>>
    /\ fd = "none"
    /\ fpos = 0
    /\ fbuf = <<>>
    /\ p = 0
    /\ remaining = 0
    /\ err = 0
    /\ wire = <<>>
    /\ hdr_n = 0
    /\ n_recv = 0
    /\ n_close = 0
    /\ statuses = <<>>
    /\ n_errbody = 0
    /\ stat_paths = <<>>
    /\ open_paths = <<>>
    /\ n_fclose = 0
    /\ n_read = 0
    /\ n_send = 0
    /\ aborted = FALSE
    /\ sent = NothingSent
    /\ st_kind = "none"
    /\ joined = "none"

\* The same values, set anew when handle_client is called again.
ConnReset ==
    /\ buf' = <<>>
    /\ r' = 0
    /\ req' = NoRequest
    /\ parsed' = FALSE
    /\ is_get' = FALSE
    /\ fs_path' = <<>>
    /\ st_size' = -1
    /\ file' = <<>>
    /\ fd' = "none"
    /\ fpos' = 0
    /\ fbuf' = <<>>
    /\ p' = 0
    /\ remaining' = 0
    /\ err' = 0
    /\ wire' = <<>>
    /\ hdr_n' = 0
    /\ n_recv' = 0
    /\ n_close' = 0
    /\ statuses' = <<>>
    /\ n_errbody' = 0
    /\ stat_paths' = <<>>
    /\ open_paths' = <<>>
    /\ n_fclose' = 0
    /\ n_read' = 0
    /\ n_send' = 0
    /\ aborted' = FALSE
    /\ sent' = NothingSent
    /\ st_kind' = "none"
    /\ joined' = "none"

Init ==
    /\ pc = "while"
    /\ g_running = 1
    /\ path_max \in {PATH_MAX_WIN32, PATH_MAX_POSIX}
    /\ sock = "none"
    /\ open_fds = 0
    /\ ConnInit

(***************************************************************************)
(* main: the accept loop, and the interrupt handler.                       *)
(***************************************************************************)
\* on_sigint, at any moment.
on_sigint ==
    /\ g_running = 1
    /\ g_running' = 0
    /\ UNCHANGED <<pc, path_max, sock, open_fds>>
    /\ UNCHANGED conn_vars

\* while (g_running).  The locals of the call of handle_client that returned
\* are gone, and the records of its connection with them.
WhileTest ==
    /\ pc = "while"
    /\ pc' = IF g_running # 0 THEN "accept" ELSE "exit"
    /\ sock' = "none"
    /\ ConnReset
    /\ UNCHANGED <<g_running, path_max, open_fds>>

\* accept returned a connection: handle_client(cfd) is called.
Accept ==
    /\ pc = "accept"
    /\ pc' = "recv"
    /\ sock' = "open"
    /\ UNCHANGED <<g_running, path_max, open_fds>>
    /\ UNCHANGED conn_vars

\* accept failed: leave the loop when shutting down, else try again.
AcceptFailed ==
    /\ pc = "accept"
    /\ pc' = IF g_running = 0 THEN "exit" ELSE "while"
    /\ UNCHANGED <<g_running, path_max, sock, open_fds>>
    /\ UNCHANGED conn_vars

(***************************************************************************)
(* handle_client                                                           *)
(***************************************************************************)
\* close_socket(cfd)
close_socket ==
    /\ sock' = "closed"
    /\ n_close' = n_close + 1

\* A slip: the early return without the close.
DeadRead_NoClose ==
    /\ pc' = "while"
    /\ UNCHANGED <<sock, n_close, err>>

\* A slip: a dead connection answered like a malformed request.
DeadRead_Answers400 ==
    /\ err' = 400
    /\ pc' = "err_hdr"
    /\ UNCHANGED <<sock, n_close>>

\* if (r <= 0) { close_socket(cfd); return; }
DeadRead ==
    /\ close_socket
    /\ pc' = "while"
    /\ UNCHANGED err

\* The initial recv, of at most RECV_LIMIT bytes; a dead connection is closed
\* at once.
Recv ==
    /\ pc = "recv"
    /\ n_recv' = n_recv + 1
    /\ \/ /\ r' \in {-1, 0}
          /\ buf' = buf
          /\ sent' = sent
          /\ DeadRead
       \/ /\ \E d \in ClientData : buf' = Take(d, RECV_LIMIT)
          /\ r' = Len(buf')
          /\ sent' = RequestSent(buf')
          /\ pc' = "parse"
          /\ UNCHANGED <<sock, n_close, err>>
    /\ UNCHANGED <<g_running, path_max, req, parsed, is_get, fs_path, st_size, file,
                   fd, fpos, fbuf, p, remaining, wire, hdr_n, open_fds, statuses,
                   n_errbody, stat_paths, open_paths, n_fclose, n_read, n_send,
                   aborted, st_kind, joined>>

\* The request line: the text of buf before the first CRLF, <<>> with found
\* false when buf holds no CRLF.
FirstLine(b) ==
    LET s == CStr(b)
        line_end == strstr(s, CRLF)
    IN  [found |-> line_end # 0,
         line |-> IF line_end # 0 THEN SubSeq(s, 1, line_end - 1) ELSE <<>>]

\* Find the request line and parse it; 400 when there is none or it does not
\* parse.
ParseRequest ==
    /\ pc = "parse"
    /\ LET fl == FirstLine(buf)
           q == parse_request_line(fl.line)
       IN  IF fl.found /\ q.ok
           THEN /\ req' = [method |-> q.method, target |-> q.target,
                           version |-> q.version]
                /\ parsed' = TRUE
                /\ pc' = "method"
                /\ err' = err
           ELSE /\ req' = IF fl.found
                          THEN [method |-> q.method, target |-> q.target,
                                version |-> q.version]
                          ELSE req
                /\ parsed' = FALSE
                /\ err' = 400
                /\ pc' = "err_hdr"
    /\ UNCHANGED <<g_running, path_max, buf, r, is_get, fs_path, st_size, file, fd,
                   fpos, fbuf, p, remaining, wire, hdr_n, sock, open_fds, n_recv,
                   n_close, statuses, n_errbody, stat_paths, open_paths, n_fclose,
                   n_read, n_send, aborted, sent, st_kind, joined>>

ToUpper(c) ==
    CASE c = "g" -> "G" [] c = "e" -> "E" [] c = "t" -> "T" [] OTHER -> c

\* A slip: strcasecmp in place of strcmp.
MethodIs_NoCase(m) ==
    Len(req.method) = Len(m) /\ \A i \in 1..Len(m) : ToUpper(req.method[i]) = m[i]

\* strcmp(req.method, m) == 0
MethodIs(m) == req.method = m

\* Only GET and HEAD go on; 405 for any other method.
CheckMethod ==
    /\ pc = "method"
    /\ is_get' = MethodIs(GET)
    /\ IF ~MethodIs(GET) /\ ~MethodIs(HEAD)
       THEN err' = 405 /\ pc' = "err_hdr"
       ELSE err' = err /\ pc' = "resolve"
    /\ UNCHANGED <<g_running, path_max, buf, r, req, parsed, fs_path, st_size,
                   file, fd, fpos, fbuf, p, remaining, wire, hdr_n, sock, open_fds,
                   n_recv, n_close, statuses, n_errbody, stat_paths, open_paths,
                   n_fclose, n_read, n_send, aborted, sent, st_kind, joined>>

\* safe_join of the document root and the target; 400 when it fails.
ResolvePath ==
    /\ pc = "resolve"
    /\ LET j == safe_join(path_max, DOC_ROOT, req.target)
       IN  IF j.ok
           THEN fs_path' = j.out /\ joined' = "ok" /\ err' = err /\ pc' = "stat"
           ELSE fs_path' = j.out /\ joined' = "failed" /\ err' = 400
                /\ pc' = "err_hdr"
    /\ UNCHANGED <<g_running, path_max, buf, r, req, parsed, is_get, st_size, file,
                   fd, fpos, fbuf, p, remaining, wire, hdr_n, sock, open_fds,
                   n_recv, n_close, statuses, n_errbody, stat_paths, open_paths,
                   n_fclose, n_read, n_send, aborted, sent, st_kind>>

\* What a stat of a path can find.
StatResults == {"missing", "directory", "regular"}

\* A slip: the S_ISREG test left out.
IsRegularFile_AnyKind(found) == found # "missing"

\* stat(...) == 0 && S_ISREG(st.st_mode)
IsRegularFile(found) == found = "regular"

\* stat(fs_path): it fails, finds something that is no regular file, or finds a
\* regular file of some content; 404 unless it is a regular file.
Stat ==
    /\ pc = "stat"
    /\ stat_paths' = Append(stat_paths, fs_path)
    /\ \E found \in StatResults :
          /\ st_kind' = found
          /\ \E f \in (IF found = "regular" THEN Files ELSE {<<>>}) :
                /\ file' = f
                /\ st_size' = IF found = "missing" THEN st_size ELSE Len(f)
          /\ IF IsRegularFile(found)
             THEN err' = err /\ pc' = "open"
             ELSE err' = 404 /\ pc' = "err_hdr"
    /\ UNCHANGED <<g_running, path_max, buf, r, req, parsed, is_get, fs_path, fd,
                   fpos, fbuf, p, remaining, wire, hdr_n, sock, open_fds, n_recv,
                   n_close, statuses, n_errbody, open_paths, n_fclose, n_read,
                   n_send, aborted, sent, joined>>

\* A slip: the test of what open returned left out.
AfterOpenFailed_Unchecked == "send_ok"

\* if (fd < 0) { send_error(cfd, 403, "Forbidden"); ... }
AfterOpenFailed == "err_hdr"

\* open(fs_path, O_RDONLY): it fails (403) or returns a handle.
Open ==
    /\ pc = "open"
    /\ open_paths' = Append(open_paths, fs_path)
    /\ \/ /\ err' = 403
          /\ pc' = AfterOpenFailed
          /\ UNCHANGED <<fd, fpos, open_fds>>
       \/ /\ fd' = "open"
          /\ fpos' = 0
          /\ open_fds' = open_fds + 1
          /\ err' = err
          /\ pc' = "send_ok"
    /\ UNCHANGED <<g_running, path_max, buf, r, req, parsed, is_get, fs_path,
                   st_size, file, fbuf, p, remaining, wire, hdr_n, sock, n_recv,
                   n_close, statuses, n_errbody, stat_paths, n_fclose, n_read,
                   n_send, aborted, sent, st_kind, joined>>

\* A slip: a HEAD returning without the close of the file.
AfterHeaders_HeadLeaks == IF is_get THEN "read" ELSE "close"

\* A slip: the copy loop entered for a HEAD too.
AfterHeaders_Always == "read"

\* if (is_get) { the copy loop }
AfterHeaders == IF is_get THEN "read" ELSE "fclose"

\* send_fmt of the 200 header block, which fits its buffer of 2048 bytes; what
\* the one send returns is not looked at.  The body follows for a GET only.
SendOkHeaders ==
    /\ pc = "send_ok"
    /\ statuses' = Append(statuses, 200)
    /\ \E k \in SendResults(Len(OkHeaders(mime_from_path(fs_path), st_size))) :
          /\ wire' = wire \o Accepted(OkHeaders(mime_from_path(fs_path), st_size), k)
          /\ hdr_n' = IF k > 0 THEN k ELSE 0
    /\ pc' = AfterHeaders
    /\ UNCHANGED <<g_running, path_max, buf, r, req, parsed, is_get, fs_path,
                   st_size, file, fd, fpos, fbuf, p, remaining, err, sock,
                   open_fds, n_recv, n_close, n_errbody, stat_paths, open_paths,
                   n_fclose, n_read, n_send, aborted, sent, st_kind, joined>>

\* What read(fd, fbuf, sizeof(fbuf)) can return: an error, 0 at the end of the
\* file, else a count up to what is left and what fbuf holds.
ReadResults == {-1} \cup
    (IF fpos = Len(file) THEN {0} ELSE 1..Min(FBUF_SIZE, Len(file) - fpos))

\* The copy loop's read: an error or the end of the file ends the loop.
ReadChunk ==
    /\ pc = "read"
    /\ n_read' = n_read + 1
    /\ \E nread \in ReadResults :
          IF nread <= 0
          THEN /\ aborted' = (nread < 0)
               /\ pc' = "fclose"
               /\ UNCHANGED <<fbuf, fpos, p, remaining>>
          ELSE /\ fbuf' = SubSeq(file, fpos + 1, fpos + nread)
               /\ fpos' = fpos + nread
               /\ p' = 0
               /\ remaining' = nread
               /\ aborted' = aborted
               /\ pc' = "send"
    /\ UNCHANGED <<g_running, path_max, buf, r, req, parsed, is_get, fs_path,
                   st_size, file, fd, err, wire, hdr_n, sock, open_fds, n_recv,
                   n_close, statuses, n_errbody, stat_paths, open_paths, n_fclose,
                   n_send, sent, st_kind, joined>>

\* A slip: p not advanced after a send that took a part of the chunk.
Unsent_FromStart == SubSeq(fbuf, 1, remaining)

\* The bytes of the chunk a send is handed: from p, remaining of them.
Unsent == SubSeq(fbuf, p + 1, p + remaining)

\* A slip: the test after the inner loop left out, a failed send followed by
\* the next read.
AfterInner_NoBreak(rem) == "read"

\* if (remaining < 0) break;
AfterInner(rem) == IF rem < 0 THEN "fclose" ELSE "read"

\* A slip: the inner loop left out, the next chunk read after one send.
AfterSend_NoResume(left) == "read"

\* while (remaining > 0): send again while a part of the chunk is left.
AfterSend(left) == IF left > 0 THEN "send" ELSE AfterInner(left)

\* A slip: if (nsent < 0), a send that took nothing tried again.
SendFailed_NegativeOnly(nsent) == nsent < 0

\* if (nsent <= 0)
SendFailed(nsent) == nsent <= 0

\* The inner loop's send: a count of zero or less ends the copy loop, else the
\* loop goes on from the first byte that was not accepted.
SendChunk ==
    /\ pc = "send"
    /\ remaining > 0
    /\ n_send' = n_send + 1
    /\ \E nsent \in SendResults(remaining) :
          IF SendFailed(nsent)
          THEN /\ remaining' = -1
               /\ aborted' = TRUE
               /\ pc' = AfterInner(-1)
               /\ UNCHANGED <<wire, p>>
          ELSE /\ wire' = wire \o Accepted(Unsent, nsent)
               /\ p' = p + nsent
               /\ remaining' = remaining - nsent
               /\ aborted' = aborted
               /\ pc' = AfterSend(remaining - nsent)
    /\ UNCHANGED <<g_running, path_max, buf, r, req, parsed, is_get, fs_path,
                   st_size, file, fd, fpos, fbuf, err, hdr_n, sock, open_fds,
                   n_recv, n_close, statuses, n_errbody, stat_paths, open_paths,
                   n_fclose, n_read, sent, st_kind, joined>>

\* close(fd)
CloseFile ==
    /\ pc = "fclose"
    /\ fd' = "closed"
    /\ n_fclose' = n_fclose + 1
    /\ open_fds' = open_fds - 1
    /\ pc' = "close"
    /\ UNCHANGED <<g_running, path_max, buf, r, req, parsed, is_get, fs_path,
                   st_size, file, fpos, fbuf, p, remaining, err, wire, hdr_n, sock,
                   n_recv, n_close, statuses, n_errbody, stat_paths, open_paths,
                   n_read, n_send, aborted, sent, st_kind, joined>>

\* send_error: send_fmt of the header block.
SendErrorHeaders ==
    /\ pc = "err_hdr"
    /\ statuses' = Append(statuses, err)
    /\ LET body == ErrorBody(err, Reason(err))
           blen == snprintf(512, body).ret
           hdr == ErrorHeaders(err, Reason(err), blen)
       IN  \E k \in SendResults(Len(hdr)) :
              /\ wire' = wire \o Accepted(hdr, k)
              /\ hdr_n' = IF k > 0 THEN k ELSE 0
    /\ pc' = "err_body"
    /\ UNCHANGED <<g_running, path_max, buf, r, req, parsed, is_get, fs_path,
                   st_size, file, fd, fpos, fbuf, p, remaining, err, sock,
                   open_fds, n_recv, n_close, n_errbody, stat_paths, open_paths,
                   n_fclose, n_read, n_send, aborted, sent, st_kind, joined>>

\* send_error: the one send of the body.
SendErrorBody ==
    /\ pc = "err_body"
    /\ n_errbody' = n_errbody + 1
    /\ LET body == ErrorBody(err, Reason(err))
       IN  \E k \in SendResults(Len(body)) : wire' = wire \o Accepted(body, k)
    /\ pc' = "close"
    /\ UNCHANGED <<g_running, path_max, buf, r, req, parsed, is_get, fs_path,
                   st_size, file, fd, fpos, fbuf, p, remaining, err, hdr_n, sock,
                   open_fds, n_recv, n_close, statuses, stat_paths, open_paths,
                   n_fclose, n_read, n_send, aborted, sent, st_kind, joined>>

\* close_socket(cfd); return.
CloseSocket ==
    /\ pc = "close"
    /\ close_socket
    /\ pc' = "while"
    /\ UNCHANGED <<g_running, path_max, buf, r, req, parsed, is_get, fs_path,
                   st_size, file, fd, fpos, fbuf, p, remaining, err, wire, hdr_n,
                   open_fds, n_recv, statuses, n_errbody, stat_paths, open_paths,
                   n_fclose, n_read, n_send, aborted, sent, st_kind, joined>>

Next ==
    \/ on_sigint
    \/ WhileTest
    \/ Accept
    \/ AcceptFailed
    \/ Recv
    \/ ParseRequest
    \/ CheckMethod
    \/ ResolvePath
    \/ Stat
    \/ Open
    \/ SendOkHeaders
    \/ ReadChunk
    \/ SendChunk
    \/ CloseFile
    \/ SendErrorHeaders
    \/ SendErrorBody
    \/ CloseSocket

Spec == Init /\ [][Next]_vars

TypeOK ==
    /\ pc \in {"while", "accept", "exit", "recv", "parse", "method", "resolve",
               "stat", "open", "send_ok", "read", "send", "fclose", "err_hdr",
               "err_body", "close"}
    /\ g_running \in {0, 1}
    /\ sock \in {"none", "open", "closed"}
    /\ fd \in {"none", "open", "closed"}

(***************************************************************************)
(* Notions the properties share.                                           *)
(***************************************************************************)
\* handle_client is running.
InHandler ==
    pc \in {"recv", "parse", "method", "resolve", "stat", "open", "send_ok",
            "read", "send", "fclose", "err_hdr", "err_body", "close"}

\* handle_client has returned, and the accept loop has not yet gone on.
Returned == pc = "while" /\ sock # "none"

\* The bytes written to the connection after the header block.
Body == SubSeq(wire, hdr_n + 1, Len(wire))

IsPrefix(a, b) == Len(a) <= Len(b) /\ a = SubSeq(b, 1, Len(a))

\* The status lines the server can write.
StatusLines ==
    {OkHeaders("", 0)[1]} \cup
    {ErrorHeaders(s, Reason(s), 0)[1] : s \in {400, 403, 404, 405}}

HasDotDot(t) == \E i \in 1..(Len(t) - 1) : t[i] = "." /\ t[i + 1] = "."

(***************************************************************************)
(* C1: handle_client closes the connection handle exactly once before it   *)
(* returns, on every exit path: it is open while the handler runs, closed  *)
(* by one close_socket when the handler has returned, never closed twice.  *)
(***************************************************************************)
C1_ClosedExactlyOnce ==
    /\ n_close <= 1
    /\ (InHandler => n_close = 0 /\ sock = "open")
    /\ (Returned => n_close = 1 /\ sock = "closed")

\* A GET whose transfer was aborted has returned, the connection closed once.
C1_Witness ==
    Returned /\ n_close = 1 /\ statuses = <<200>> /\ is_get /\ aborted

(***************************************************************************)
(* C2: the handler reads the connection once and starts at most one        *)
(* response: exactly one when the initial read returned more than zero     *)
(* bytes, and not a byte is written when it returned zero or less.         *)
(***************************************************************************)
C2_OneReadOneResponse ==
    /\ n_recv <= 1
    /\ (InHandler /\ pc # "recv" => n_recv = 1)
    /\ (Returned => n_recv = 1)
    /\ Len(statuses) <= 1
    /\ Cardinality({i \in 1..Len(wire) : wire[i] \in StatusLines}) <= 1
    /\ (n_recv = 1 /\ r <= 0 => statuses = <<>> /\ wire = <<>>)
    /\ (Returned /\ r > 0 => Len(statuses) = 1)

\* A connection whose initial read failed was closed with nothing written.
C2_Witness == Returned /\ r = -1 /\ wire = <<>> /\ n_recv = 1

(***************************************************************************)
(* C3, as stated: a request whose target holds ".." is answered 400,       *)
(* whatever its method.                                                    *)
(***************************************************************************)
C3_Original ==
    (statuses # <<>> /\ sent.ntok >= 2 /\ sent.dotdot) => statuses = <<400>>

(***************************************************************************)
(* C3, amended: a request with the method GET or HEAD whose target is of   *)
(* at most TARGET_WIDTH bytes and holds ".." is answered 400 and no path   *)
(* is looked up; and so is every parsed GET or HEAD whose target as        *)
(* parse_request_line stored it holds "..".                                *)
(***************************************************************************)
C3_DotDotGetHead400 ==
    /\ (statuses # <<>> /\ sent.ntok >= 2 /\ sent.dotdot
          /\ sent.target_len <= TARGET_WIDTH /\ sent.method \in {GET, HEAD})
       => (statuses = <<400>> /\ stat_paths = <<>> /\ open_paths = <<>>)
    /\ (parsed /\ req.method \in {GET, HEAD} /\ pc \notin {"method", "resolve"}
          /\ HasDotDot(req.target))
       => (joined = "failed" /\ err = 400 /\ stat_paths = <<>>
           /\ open_paths = <<>> /\ (statuses # <<>> => statuses = <<400>>))

\* A HEAD for a target that holds ".." was answered 400.
C3_Witness ==
    /\ Returned /\ statuses = <<400>> /\ joined = "failed"
    /\ sent.method = HEAD /\ sent.dotdot

(***************************************************************************)
(* C4: a request line that parses and whose method is neither GET nor HEAD *)
(* is answered 405 whatever its target, and the handler never resolves a   *)
(* path, never calls stat and never calls open for it.                     *)
(***************************************************************************)
C4_OtherMethod405 ==
    (parsed /\ req.method \notin {GET, HEAD} /\ pc # "method")
    => /\ err = 405
       /\ pc \in {"err_hdr", "err_body", "close", "while"}
       /\ joined = "none" /\ stat_paths = <<>> /\ open_paths = <<>>
       /\ (statuses # <<>> => statuses = <<405>>)
       /\ (Returned => statuses = <<405>>)

\* A POST for a target that holds ".." was answered 405.
C4_Witness ==
    Returned /\ parsed /\ req.method = POST /\ sent.dotdot /\ statuses = <<405>>

(***************************************************************************)
(* C5, as stated: the request line is accepted only when a CRLF ends it    *)
(* within the initial read and it holds exactly three tokens; with fewer   *)
(* tokens, more tokens or no CRLF the answer is 400.                       *)
(***************************************************************************)
C5_ExactlyThreeTokens ==
    /\ parsed => (sent.crlf /\ sent.ntok = 3)
    /\ (statuses # <<>> /\ ~(sent.crlf /\ sent.ntok = 3)) => statuses = <<400>>

(***************************************************************************)
(* C6, as stated: a request line with a token over its bound (method over  *)
(* METHOD_WIDTH bytes, target over TARGET_WIDTH, version over              *)
(* VERSION_WIDTH) is answered 400, and no path is resolved for it.         *)
(***************************************************************************)
C6_OversizedToken400 ==
    (sent.crlf /\ (Len(sent.method) > METHOD_WIDTH
                   \/ sent.target_len > TARGET_WIDTH
                   \/ sent.version_len > VERSION_WIDTH))
    => (joined = "none" /\ (statuses # <<>> => statuses = <<400>>))

(***************************************************************************)
(* C7, as stated: when a file was served by a GET with status 200, the     *)
(* body written to the connection is the file's content and as long as the *)
(* size the stat gave.                                                     *)
(***************************************************************************)
Served200Get ==
    pc \in {"fclose", "close", "while"} /\ statuses = <<200>> /\ is_get

C7_Original == Served200Get => (Body = file /\ Len(Body) = st_size)

(***************************************************************************)
(* C7, amended: when the copy loop ran to the end of the file (no read     *)
(* failed, no send returned zero or less) the body written is the file's   *)
(* content and as long as the Content-Length declared, the size the stat   *)
(* gave; when the transfer was aborted the body is a prefix of the file.   *)
(***************************************************************************)
C7_BodyIsFile ==
    Served200Get
    => /\ ~aborted => (Body = file /\ Len(Body) = st_size)
       /\ IsPrefix(Body, file)
       /\ hdr_n >= 5 => wire[5] = "Content-Length: " \o ToString(Len(file)) \o "\r\n"

\* A file of MaxFileLen bytes was served whole, in more than one send.
C7_Witness ==
    /\ Returned /\ statuses = <<200>> /\ is_get /\ ~aborted
    /\ Len(file) = MaxFileLen /\ Body = file /\ n_send > 1

(***************************************************************************)
(* C8, as stated: a HEAD for an existing regular file is answered 200,     *)
(* with GET's headers and the file's size as Content-Length, and no body:  *)
(* the file is not read and nothing follows the header block.              *)
(***************************************************************************)
C8_Original ==
    (parsed /\ req.method = HEAD /\ st_kind = "regular" /\ statuses # <<>>)
    => (statuses = <<200>> /\ Body = <<>> /\ n_read = 0)

(***************************************************************************)
(* C8, amended: a HEAD for a regular file that open succeeds on is         *)
(* answered 200: what is written is the header block of a GET for that     *)
(* path (as much of it as the connection accepts), its Content-Length the  *)
(* file's size, the file is never read and nothing follows the block.  A   *)
(* regular file that open fails on is answered 403.                        *)
(***************************************************************************)
C8_HeadNoBody ==
    (parsed /\ req.method = HEAD /\ st_kind = "regular" /\ statuses # <<>>)
    => IF fd = "none"
       THEN statuses = <<403>>
       ELSE /\ statuses = <<200>>
            /\ wire = Take(OkHeaders(mime_from_path(fs_path), Len(file)), hdr_n)
            /\ Body = <<>>
            /\ n_read = 0 /\ n_send = 0 /\ fpos = 0

\* A HEAD for a file of MaxFileLen bytes was answered with the whole header
\* block and nothing else.
C8_Witness ==
    /\ Returned /\ req.method = HEAD /\ statuses = <<200>>
    /\ Len(file) = MaxFileLen /\ hdr_n = 7 /\ Len(wire) = 7

(***************************************************************************)
(* C9: when the target of a GET or HEAD resolves and the stat fails or     *)
(* finds something that is no regular file, the answer is 404 and the path *)
(* is never opened.                                                        *)
(***************************************************************************)
C9_NotRegular404 ==
    (st_kind \in {"missing", "directory"})
    => /\ joined = "ok" /\ req.method \in {GET, HEAD}
       /\ err = 404
       /\ open_paths = <<>> /\ fd = "none"
       /\ (statuses # <<>> => statuses = <<404>>)
       /\ (Returned => statuses = <<404>>)

\* A GET for a directory was answered 404.
C9_Witness ==
    Returned /\ st_kind = "directory" /\ is_get /\ statuses = <<404>>

(***************************************************************************)
(* C10: for a target without "..", safe_join strips every leading '/' and  *)
(* composes <root>/index.html for what is then empty, <root>/<t>index.html *)
(* for a <t> ending in '/', <root>/<t> else; it succeeds exactly when the  *)
(* composed path and its terminator fit the buffer of PATH_MAX bytes; and  *)
(* one more leading '/' changes nothing.                                   *)
(***************************************************************************)
\* t without its leading slashes.
Stripped(t) ==
    IF \A i \in 1..Len(t) : t[i] = "/" THEN <<>>
    ELSE SubSeq(t, CHOOSE i \in 1..Len(t) :
                       t[i] # "/" /\ \A k \in 1..(i - 1) : t[k] = "/",
                Len(t))

ExpectedPath(t) ==
    LET u == Stripped(t)
    IN  DOC_ROOT \o <<"/">> \o
        (IF u = <<>> \/ u[Len(u)] = "/" THEN u \o INDEX_HTML ELSE u)

C10_SafeJoinMapping ==
    (joined # "none" /\ pc \in {"stat", "err_hdr"} /\ st_kind = "none"
       /\ ~HasDotDot(req.target))
    => /\ joined = "ok" <=> Len(ExpectedPath(req.target)) + 1 <= path_max
       /\ joined = "ok" => fs_path = ExpectedPath(req.target)
       /\ safe_join(path_max, DOC_ROOT, <<"/">> \o req.target)
            = safe_join(path_max, DOC_ROOT, req.target)

\* /a/b/ was resolved to public/a/b/index.html.
C10_Witness ==
    /\ joined = "ok"
    /\ req.target = <<"/", "a", "/", "b", "/">>
    /\ fs_path = DOC_ROOT \o <<"/", "a", "/", "b", "/">> \o INDEX_HTML

(***************************************************************************)
(* C11: every path handed to stat or to open is the one a successful       *)
(* safe_join stored for the request's target: it begins with the document  *)
(* root and a '/', and holds no "..".                                      *)
(***************************************************************************)
UnderDocRoot(path) ==
    /\ IsPrefix(DOC_ROOT \o <<"/">>, path)
    /\ ~HasDotDot(path)

C11_PathsUnderRoot ==
    /\ \A i \in 1..Len(stat_paths) :
          joined = "ok" /\ stat_paths[i] = fs_path /\ UnderDocRoot(stat_paths[i])
    /\ \A i \in 1..Len(open_paths) :
          joined = "ok" /\ open_paths[i] = fs_path /\ UnderDocRoot(open_paths[i])
    /\ (pc \in {"stat", "open"} => joined = "ok" /\ UnderDocRoot(fs_path))

\* The absolute target //a was looked up and opened as public/a.
C11_Witness ==
    /\ req.target = <<"/", "/", "a">>
    /\ stat_paths = <<DOC_ROOT \o <<"/", "a">>>>
    /\ open_paths = <<DOC_ROOT \o <<"/", "a">>>>

(***************************************************************************)
(* C12, as stated: when the handler has returned after an error status,    *)
(* what was written is the whole header block of that status, with the     *)
(* body's length as Content-Length, and then the whole body, whatever the  *)
(* sends accepted; failing that, nothing at all was written.                *)
(***************************************************************************)
ErrorResponse(status) ==
    ErrorHeaders(status, Reason(status), Len(ErrorBody(status, Reason(status))))
        \o ErrorBody(status, Reason(status))

C12_ErrorResponseComplete ==
    Returned =>
        /\ (statuses = <<>> => wire = <<>>)
        /\ (statuses # <<>> /\ statuses[1] # 200
              => (wire = <<>> \/ wire = ErrorResponse(statuses[1])))

(***************************************************************************)
(* C13, as stated: once on_sigint has cleared g_running, no step of main   *)
(* accepts a connection or enters handle_client, and a step of a running   *)
(* handler stays in the handler or returns from it; this wherever the      *)
(* accept loop stood when the interrupt came.                              *)
(***************************************************************************)
C13_NoAcceptAfterInterrupt ==
    [][g_running = 0 =>
         /\ (~InHandler => ~InHandler')
         /\ (sock # "open" => sock' # "open")
         /\ (InHandler => (InHandler' \/ Returned'))]_vars

(***************************************************************************)
(* C14: the content type of a 200 response is the one listed for the text  *)
(* after the last '.' of the resolved path, matched exactly and with case  *)
(* (html and htm, css, js, json, png, jpg and jpeg, gif, svg, txt), and    *)
(* application/octet-stream when the path has no '.' or the text after the *)
(* last one is not listed; a GET of / is served as text/html;              *)
(* charset=utf-8.                                                          *)
(***************************************************************************)
Dots(path) == {i \in 1..Len(path) : path[i] = "."}

\* The text after the last '.' of a path that has one.
Extension(path) ==
    SubSeq(path, (CHOOSE i \in Dots(path) : \A k \in Dots(path) : k <= i) + 1,
           Len(path))

ContentTypeOf(path) ==
    IF Dots(path) = {} THEN "application/octet-stream"
    ELSE LET ext == Extension(path)
         IN  CASE ext \in {<<"h", "t", "m", "l">>, <<"h", "t", "m">>}
                      -> "text/html; charset=utf-8"
               [] ext = <<"c", "s", "s">> -> "text/css; charset=utf-8"
               [] ext = <<"j", "s">> -> "application/javascript; charset=utf-8"
               [] ext = <<"j", "s", "o", "n">> -> "application/json; charset=utf-8"
               [] ext = <<"p", "n", "g">> -> "image/png"
               [] ext \in {<<"j", "p", "g">>, <<"j", "p", "e", "g">>} -> "image/jpeg"
               [] ext = <<"g", "i", "f">> -> "image/gif"
               [] ext = <<"s", "v", "g">> -> "image/svg+xml"
               [] ext = <<"t", "x", "t">> -> "text/plain; charset=utf-8"
               [] OTHER -> "application/octet-stream"

C14_MimeByExtension ==
    /\ (joined = "ok" => mime_from_path(fs_path) = ContentTypeOf(fs_path))
    /\ (statuses = <<200>> /\ hdr_n >= 4)
       => wire[4] = "Content-Type: " \o ContentTypeOf(fs_path) \o "\r\n"
    /\ (statuses = <<200>> /\ hdr_n >= 4 /\ req.method = GET
          /\ req.target = <<"/">>)
       => wire[4] = "Content-Type: text/html; charset=utf-8\r\n"

\* A GET of / was served, index.html there, as text/html; charset=utf-8.
C14_Witness ==
    /\ Returned /\ statuses = <<200>> /\ req.method = GET /\ req.target = <<"/">>
    /\ fs_path = DOC_ROOT \o <<"/">> \o INDEX_HTML
    /\ hdr_n = 7 /\ wire[4] = "Content-Type: text/html; charset=utf-8\r\n"
    /\ Body = file /\ Len(file) = MaxFileLen

\* What was served for the targets the table does not list.
C14_UnlistedWitness ==
    /\ Returned /\ statuses = <<200>> /\ hdr_n = 7
    /\ req.target = Name(<<"H", "T", "M", "L">>)
    /\ wire[4] = "Content-Type: application/octet-stream\r\n"

(***************************************************************************)
(* C15: in the copy loop of a GET the body written so far is at every      *)
(* moment a prefix of the file; a chunk is read only when all that was     *)
(* read before is written; and while a chunk is being sent, what is        *)
(* written is the file up to the first unsent byte of the chunk, which is  *)
(* where the next send starts.                                             *)
(***************************************************************************)
C15_CopyLoopPrefix ==
    (statuses = <<200>> /\ is_get)
    => /\ IsPrefix(Body, file)
       /\ (pc = "read" => Body = SubSeq(file, 1, fpos))
       /\ (pc = "send" =>
             /\ remaining > 0
             /\ p + remaining = Len(fbuf)
             /\ fbuf = SubSeq(file, fpos - Len(fbuf) + 1, fpos)
             /\ Body = SubSeq(file, 1, fpos - remaining))

\* A send took a part of a chunk of MaxFileLen bytes, the rest is to be sent.
C15_Witness ==
    /\ pc = "send" /\ statuses = <<200>> /\ is_get
    /\ Len(fbuf) = MaxFileLen /\ p = 1 /\ remaining = MaxFileLen - 1
    /\ Body = SubSeq(file, 1, 1)

(***************************************************************************)
(* C16: once a read of the file has failed or a send of the copy loop has  *)
(* returned zero or less, the handler reads and sends nothing more and     *)
(* writes no status line or error page after the 200; it closes the file   *)
(* and then the connection, each once, and returns.                        *)
(***************************************************************************)
C16_AbortAtOnce ==
    [][/\ (aborted' =>
             /\ pc' \in {"fclose", "close", "while"}
             /\ statuses' = <<200>> /\ n_errbody' = 0
             /\ (pc' = "fclose" => fd' = "open" /\ sock' = "open")
             /\ (pc' = "close" => fd' = "closed" /\ sock' = "open")
             /\ (pc' = "while" => fd' = "closed" /\ sock' = "closed"
                                  /\ n_fclose' = 1 /\ n_close' = 1))
       /\ (aborted /\ pc # "while" =>
             /\ aborted'
             /\ n_read' = n_read /\ n_send' = n_send
             /\ wire' = wire /\ statuses' = statuses)]_vars

\* A send of the copy loop failed after a part of the file was written, and
\* the handler returned with both handles closed.
C16_Witness ==
    /\ Returned /\ aborted /\ remaining = -1 /\ statuses = <<200>>
    /\ Len(Body) = 1 /\ Len(file) = MaxFileLen
    /\ fd = "closed" /\ sock = "closed"

(***************************************************************************)
(* C17: when the stat found a regular file and the open of it failed, the  *)
(* answer is 403 and no 200 status line is written for the connection; a   *)
(* 200 is started only when the open has returned a handle.                *)
(***************************************************************************)
OpenTried == open_paths # <<>>

Has200 ==
    \/ \E i \in 1..Len(statuses) : statuses[i] = 200
    \/ \E i \in 1..Len(wire) : wire[i] = "HTTP/1.1 200 OK\r\n"

C17_OpenFailed403 ==
    /\ (OpenTried /\ fd = "none")
       => /\ st_kind = "regular"
          /\ err = 403
          /\ pc \in {"err_hdr", "err_body", "close", "while"}
          /\ ~Has200
          /\ (statuses # <<>> => statuses = <<403>>)
          /\ (Returned => statuses = <<403>>)
    /\ (pc = "send_ok" \/ Has200)
       => (OpenTried /\ fd # "none" /\ st_kind = "regular")

\* A GET for a regular file that could not be opened was answered 403.
C17_Witness ==
    /\ Returned /\ st_kind = "regular" /\ OpenTried /\ fd = "none"
    /\ is_get /\ statuses = <<403>> /\ hdr_n = 7
    /\ wire[1] = "HTTP/1.1 403 Forbidden\r\n"

(***************************************************************************)
(* C18: a call of handle_client comes to its return, and returns with the  *)
(* connection closed.  Every step of the handler moves it to a later stage *)
(* of the call, except inside the copy loop, where every step brings the   *)
(* loop nearer its end: a read either ends the loop or takes bytes of the  *)
(* file, and a send is either accepted at least one byte of, leaving less  *)
(* of the chunk, or ends the loop.  No state of the handler is without a   *)
(* next step, so that when the I/O calls return the call returns.          *)
(***************************************************************************)
\* How far a place of handle_client is from the return.
Stage(at) ==
    CASE at = "recv" -> 12 [] at = "parse" -> 11 [] at = "method" -> 10
      [] at = "resolve" -> 9 [] at = "stat" -> 8 [] at = "open" -> 7
      [] at = "send_ok" -> 6 [] at \in {"read", "send"} -> 5
      [] at = "err_hdr" -> 4 [] at = "err_body" -> 3
      [] at = "fclose" -> 2 [] at = "close" -> 1
      [] OTHER -> 0

\* What the copy loop has left to do: the bytes of the file not yet read, the
\* bytes of the chunk not yet sent, and the read that follows a chunk.
LoopVariant ==
    IF pc = "read" THEN 2 * (Len(file) - fpos) + 1
    ELSE IF pc = "send" THEN 2 * (Len(file) - fpos) + 2 * remaining
    ELSE 0

C18_HandlerReturns ==
    [][(InHandler /\ g_running' = g_running) =>
         /\ \/ Stage(pc') < Stage(pc)
            \/ /\ Stage(pc') = Stage(pc)
               /\ LoopVariant' < LoopVariant
               /\ LoopVariant' >= 0
         /\ (pc = "send" =>
               \/ Len(wire') > Len(wire) /\ remaining' < remaining
               \/ pc' = "fclose" /\ wire' = wire)
         /\ (pc = "read" =>
               \/ pc' = "fclose" /\ fpos' = fpos
               \/ pc' = "send" /\ fpos' > fpos /\ fpos' <= Len(file))
         /\ (pc' = "send" => remaining' > 0)
         /\ (~InHandler' => Returned' /\ sock' = "closed" /\ n_close' = 1)]_vars

\* A GET of a file of MaxFileLen bytes returned after as many reads and sends
\* as the file has bytes, and the read that found its end.
C18_Witness ==
    /\ Returned /\ sock = "closed" /\ is_get /\ ~aborted
    /\ Len(file) = MaxFileLen
    /\ n_send = MaxFileLen /\ n_read = MaxFileLen + 1

(***************************************************************************)
(* C19: handle_client opens a file at most once, and only for a request    *)
(* that parsed, with the method GET or HEAD, whose path resolved and whose *)
(* stat found a regular file; a handle it opened is closed once before it  *)
(* returns, for a HEAD and for an aborted transfer too; and no file handle *)
(* is open while main is not in handle_client, whatever came before.       *)
(***************************************************************************)
C19_FileClosedOnce ==
    /\ Len(open_paths) <= 1
    /\ (open_paths # <<>> \/ fd # "none")
       => /\ parsed /\ req.method \in {GET, HEAD}
          /\ joined = "ok" /\ st_kind = "regular"
          /\ Len(stat_paths) = 1 /\ Len(open_paths) = 1
    /\ (fd = "none" => n_fclose = 0 /\ open_fds = 0)
    /\ (fd = "open" => n_fclose = 0 /\ open_fds = 1 /\ InHandler)
    /\ (fd = "closed" => n_fclose = 1 /\ open_fds = 0)
    /\ (~InHandler => open_fds = 0 /\ fd # "open")

\* A HEAD returned with its file opened, never read, and closed.
C19_Witness ==
    /\ Returned /\ req.method = HEAD /\ statuses = <<200>>
    /\ fd = "closed" /\ n_fclose = 1 /\ open_fds = 0 /\ n_read = 0

(***************************************************************************)
(* C20, as stated: for a 200, when a byte of the body has been written,    *)
(* the whole header block, through its blank line, was written before it.  *)
(***************************************************************************)
C20_HeadersBeforeBody ==
    (statuses = <<200>> /\ Body # <<>>)
    => /\ hdr_n = Len(OkHeaders(mime_from_path(fs_path), st_size))
       /\ Take(wire, hdr_n) = OkHeaders(mime_from_path(fs_path), st_size)

====
